---- MODULE Spec2Model ----
(***************************************************************************)
(* A model of pylytics' batch loader (library/connection.py, class DB),   *)
(* of run_command (library/main.py) and of the table classes of           *)
(* declarative/table.py: class creation, update, insert, item access and  *)
(* the DDL methods.                                                        *)
(*                                                                         *)
(* Rows are identified by their position in the input sequence; a row is   *)
(* represented by the length of its rendered literal "(v1, v2, ...)".      *)
(* Strings that the code parses are sequences of one-character strings.    *)
(***************************************************************************)
EXTENDS Integers, Sequences, FiniteSets, TLC

\* ------------------------------------------------------------------ bounds
MaxRows == 4
MaxFaults == 2
SmallRowLen == 4
BigRowLen == 40
QueryPrefixLen == 5
QuerySuffixLen == 0
SmallLimit == 30
LargeLimit == 1000
MaxSource == 5
MaxUpdates == 2
MaxFacts == 3
MaxColumns == 3
MaxInstances == 2
MaxDigits == 3
MaxSize == 12
MaxLimit == 5
MaxCount == 6
MaxBases == 2
MaxResolutions == 2
MaxAccesses == 3
MaxCatalogCalls == 4

VARIABLES
    \* ---- environment of a DB object
    server_variables,       \* what SHOW VARIABLES LIKE 'max_allowed_packet' returns
    client_config,          \* settings.CLIENT_CONFIG_FILE and the option it holds
    \* ---- DB object and the store behind its connection
    connection,             \* self.connection: "none" | "open" | "closed"
    table,                  \* rows inserted through the connection, not yet committed
    committed,              \* rows committed in the store
    \* ---- DB.insert_many activation
    pc,                     \* position in insert_many
    values,                 \* the argument: sequence of rendered row lengths
    max_allowed_packet,
    packet_size,
    packet_iterations,
    batch_size,
    batches,                \* sequence of batches, each a sequence of row indices
    bi,                     \* index of the batch being attempted
    ri,                     \* index within the batch, in _step_through_batch
    step_errors,            \* `errors` local to _step_through_batch
    errors,                 \* `errors` of insert_many
    raised,                 \* exception insert_many terminated with, or "none"
    attempts,               \* history: every cursor.executemany / cursor.execute insert
    faults,                 \* number of store failures not caused by payload size
    \* ---- Table.update activation
    upc,                    \* "Idle" | "Fetching" | "Finishing" | "Inserting" | "Failed"
    has_source,             \* cls.__source__ is set
    source_rows,            \* what __source__.select() would yield in full
    fail_at,                \* 0: select never raises; k: raises instead of yielding item k
    instances,              \* rows yielded so far by fetch
    trace,                  \* history of collaborator calls of the current update
    insert_calls,           \* history: argument tuple of every Table.insert call
    warehouse,              \* rows written by Warehouse.execute
    path,                   \* history: positions the current update went through
    results,                \* history: how every finished update() ended
    updates                 \* number of update() calls started

dbvars == <<server_variables, client_config, connection, table, committed, pc,
            values, max_allowed_packet, packet_size, packet_iterations,
            batch_size, batches, bi, ri, step_errors, errors, raised,
            attempts, faults>>

tvars == <<upc, has_source, source_rows, fail_at, instances, trace,
           insert_calls, warehouse, path, results, updates>>

VARIABLES
    \* ---- run_command activation (library/main.py)
    rpc,                    \* position in run_command
    facts,                  \* the facts argument: per fact, whether it loads / its command raises
    script_fault,           \* which script phase raises out of run_command: "none" | "setup" | "exit"
    fact_classes,           \* indices of the facts whose class was loaded, in order
    load_i,                 \* index of the fact being loaded
    run_i,                  \* index into fact_classes of the command being run
    commanded,              \* history: facts whose command was invoked, in order
    run_errors              \* the errors dictionary: keys (facts) with a recorded exception

rvars == <<rpc, facts, script_fault, fact_classes, load_i, run_i, commanded,
           run_errors>>

VARIABLES
    \* ---- direct calls of DB.execute
    exec_log                \* history: per kind of call, the connection it met and whether
                            \* the statement ran on the store

cvars == <<exec_log>>

VARIABLES
    \* ---- Table.insert activation (declarative/table.py)
    ins_pc,                 \* "idle" | "done"
    ins_columns,            \* cls.__columns__: sequence of columns [name, auto]
    ins_args,               \* the instances argument: per instance, column name -> value
    ins_statements          \* history: statements handed to Warehouse.execute

ivars == <<ins_pc, ins_columns, ins_args, ins_statements>>

VARIABLES
    \* ---- one evaluation of the arithmetic of insert_many on given inputs
    calc_pc,                \* "ready" | "done"
    calc_in,                \* the inputs: [kind, text, server, size, limit, n, step]
    calc_out                \* the values computed: [client, limit, iterations, batch, batches]

kvars == <<calc_pc, calc_in, calc_out>>

VARIABLES
    \* ---- creation of one table class by TableMetaclass (declarative/table.py)
    sch_bases,              \* bases: per base class, its declarations and attribute names
    sch_attributes,         \* attributes: the declarations and attribute names of the class body
    sch_results             \* history: the outcome of each creation from these inputs

svars == <<sch_bases, sch_attributes, sch_results>>

VARIABLES
    \* ---- one Table instance accessed by column name (declarative/table.py)
    rec_attrs,              \* the instance's attributes: key -> value, "unset" if never assigned
    rec_log                 \* history: the item accesses made and how each ended

gvars == <<rec_attrs, rec_log>>

VARIABLES
    \* ---- the warehouse's tables and the DDL methods of one table class
    cat_tables,             \* the table names in the warehouse
    cat_log                 \* history: the DDL calls made and how each ended

qvars == <<cat_tables, cat_log>>

\* everything outside the DB object, Table.update and run_command
nonrun == <<cvars, ivars, kvars, svars, gvars, qvars>>

xvars == <<rvars, nonrun>>

vars == <<dbvars, tvars, xvars>>

\* --------------------------------------------------------- generic helpers
RECURSIVE SumSeq(_)
SumSeq(s) == IF s = <<>> THEN 0 ELSE Head(s) + SumSeq(Tail(s))

RECURSIVE Pow10(_)
Pow10(k) == IF k = 0 THEN 1 ELSE 10 * Pow10(k - 1)

Range(s) == {s[k] : k \in 1..Len(s)}

Min(a, b) == IF a <= b THEN a ELSE b

RECURSIVE SeqsUpTo(_, _)
SeqsUpTo(S, n) ==
    IF n = 0 THEN {<<>>}
    ELSE LET shorter == SeqsUpTo(S, n - 1)
         IN  shorter \cup {Append(s, x) : s \in {t \in shorter : Len(t) = n - 1}, x \in S}

\* ------------------------------------------- client limit parsing (189-204)
Digits == {"0", "1", "2", "3", "4", "5", "6", "7", "8", "9"}

DigitValue(c) ==
    CASE c = "0" -> 0 [] c = "1" -> 1 [] c = "2" -> 2 [] c = "3" -> 3
      [] c = "4" -> 4 [] c = "5" -> 5 [] c = "6" -> 6 [] c = "7" -> 7
      [] c = "8" -> 8 [] c = "9" -> 9

\* str.upper() on the alphabet the model uses
UpperChar(c) ==
    CASE c = "k" -> "K" [] c = "m" -> "M" [] c = "g" -> "G" [] c = "b" -> "B"
      [] OTHER -> c

Upper(s) == [k \in 1..Len(s) |-> UpperChar(s[k])]

unit_prefix == [K |-> 3, M |-> 6, G |-> 9]

\* int(s) succeeds: a non-empty run of decimal digits
IntOk(s) == Len(s) > 0 /\ \A k \in 1..Len(s) : s[k] \in Digits

RECURSIVE IntOf(_)
IntOf(s) ==
    IF s = <<>> THEN 0
    ELSE 10 * IntOf(SubSeq(s, 1, Len(s) - 1)) + DigitValue(s[Len(s)])

EndsWithUnit(s) == Len(s) > 0 /\ s[Len(s)] \in DOMAIN unit_prefix

\* lines 197-204 do not raise ValueError
ClientLimitParses(text) ==
    LET u == Upper(text)
    IN  IF EndsWithUnit(u) THEN IntOk(SubSeq(u, 1, Len(u) - 1)) ELSE IntOk(u)

\* ClientLimit without the multiplication of line 202: the unit is dropped
ClientLimitWithoutUnit(text) ==
    LET u == Upper(text)
    IN  IF EndsWithUnit(u) THEN IntOf(SubSeq(u, 1, Len(u) - 1)) ELSE IntOf(u)

\* lines 197-204: the parsed client_max_allowed_packet
ClientLimit(text) ==
    LET u == Upper(text)
    IN  IF EndsWithUnit(u)
        THEN IntOf(SubSeq(u, 1, Len(u) - 1)) * Pow10(unit_prefix[u[Len(u)]])
        ELSE IntOf(u)

\* ------------------------------------------------ packet size (134-151)
\* len('\n'.join([query[:p], ',\n'.join(q), query[e:]])) for the rendered rows q
get_packet_size(lens) ==
    QueryPrefixLen + 1
    + SumSeq(lens) + (IF Len(lens) > 0 THEN 2 * (Len(lens) - 1) ELSE 0)
    + 1 + QuerySuffixLen

\* length of the statement cursor.execute sends for one row
RowStatementSize(len) == QueryPrefixLen + len + QuerySuffixLen

\* Partition with the slices taken from the end of the list backwards
PartitionBackwards(n, size) ==
    LET count == (n + size - 1) \div size
    IN  [b \in 1..count |->
            [k \in 1..Min(size, n - (count - b) * size) |-> (count - b) * size + k]]

\* [values[x: x + batch_size] for x in xrange(0, len(values), batch_size)],
\* as row indices; defined for size > 0
Partition(n, size) ==
    [b \in 1..((n + size - 1) \div size) |->
        [k \in 1..Min(size, n - (b - 1) * size) |-> (b - 1) * size + k]]

\* ---------------------------------------------------------- environment
ServerVariables ==
    {[present |-> FALSE, value |-> 0]}
    \cup {[present |-> TRUE, value |-> v] : v \in {SmallLimit, LargeLimit}}

ClientTexts ==
    { <<"3", "0">>, <<"1", "k">>, <<"1", "6", "M">>, <<"0">>, <<"1", "b">> }

ClientConfigs ==
    {[kind |-> "nosetting", text |-> <<>>], [kind |-> "nooption", text |-> <<>>]}
    \cup {[kind |-> "value", text |-> t] : t \in ClientTexts}

\* the payload ceiling the store enforces on one statement
StoreLimit ==
    IF server_variables.present /\ client_config.kind = "value"
       /\ ClientLimitParses(client_config.text)
    THEN Min(ClientLimit(client_config.text), server_variables.value)
    ELSE IF server_variables.present THEN server_variables.value ELSE SmallLimit

RowLens == {SmallRowLen, BigRowLen}

\* ------------------------------------------------------------- initial state
\* DB.__init__ (lines 95-101), and no insert_many activation yet
DBConstructed ==
    /\ connection = "none"
    /\ table = <<>>
    /\ committed = <<>>
    /\ pc = "idle"
    /\ values = <<>>
    /\ max_allowed_packet = 0
    /\ packet_size = 0
    /\ packet_iterations = 0
    /\ batch_size = 0
    /\ batches = <<>>
    /\ bi = 0
    /\ ri = 0
    /\ step_errors = <<>>
    /\ errors = <<>>
    /\ raised = "none"
    /\ attempts = <<>>
    /\ faults = 0

DBInit ==
    /\ server_variables \in ServerVariables
    /\ client_config \in ClientConfigs
    /\ DBConstructed

\* no update() has run: nothing fetched, nothing written to the warehouse
TableInit ==
    /\ upc = "Idle"
    /\ has_source = TRUE
    /\ source_rows = <<>>
    /\ fail_at = 0
    /\ instances = <<>>
    /\ trace = <<>>
    /\ insert_calls = <<>>
    /\ warehouse = <<>>
    /\ path = <<"Idle">>
    /\ results = <<>>
    /\ updates = 0

\* run_command has not been called
RunInit ==
    /\ rpc = "start"
    /\ facts = <<>>
    /\ script_fault = "none"
    /\ fact_classes = <<>>
    /\ load_i = 0
    /\ run_i = 0
    /\ commanded = <<>>
    /\ run_errors = {}

\* DB.execute has not been called directly
ExecInit == exec_log = {}

\* a table class with one column, Table.insert not called
InsertIdle ==
    /\ ins_pc = "idle"
    /\ ins_columns = <<[name |-> "ring", auto |-> FALSE]>>
    /\ ins_args = <<>>
    /\ ins_statements = <<>>

NoCalcIn == [kind |-> "none", text |-> <<>>, server |-> 0, size |-> 0, limit |-> 0, n |-> 0, step |-> 0]

NoCalcOut == [client |-> 0, limit |-> 0, iterations |-> 0, batch |-> 0, batches |-> <<>>]

\* nothing to evaluate
CalcIdle ==
    /\ calc_pc = "done"
    /\ calc_in = NoCalcIn
    /\ calc_out = NoCalcOut

\* no table class being created
SchemaIdle ==
    /\ sch_bases = <<>>
    /\ sch_attributes = [decls |-> <<>>, attrs |-> {}]
    /\ sch_results = <<>>

\* the attributes of the class of the instance, in dir() order: the key,
\* whether the key starts with "_", and the name of the Column it holds (""
\* when it holds something else)
ClassAttributes ==
    << [key |-> "_hidden", underscore |-> TRUE, column |-> "hidden"],
       [key |-> "alias", underscore |-> FALSE, column |-> "ring"],
       [key |-> "count", underscore |-> FALSE, column |-> "count"],
       [key |-> "ring_name", underscore |-> FALSE, column |-> "ring"],
       [key |-> "save", underscore |-> FALSE, column |-> ""] >>

AttributeKeys == {ClassAttributes[k].key : k \in 1..Len(ClassAttributes)}

\* a fresh instance, no item accessed yet
RecordFresh ==
    /\ rec_attrs = [key \in AttributeKeys |-> "unset"]
    /\ rec_log = <<>>

\* an empty warehouse, no DDL call made
CatalogIdle ==
    /\ cat_tables = {}
    /\ cat_log = <<>>

XInit == RunInit /\ ExecInit /\ InsertIdle /\ CalcIdle /\ SchemaIdle /\ RecordFresh /\ CatalogIdle

Init == DBInit /\ TableInit /\ XInit

\* ------------------------------------------------------ DB.connect / DB.close
\* connect(): opens a connection unless self.connection is already set
Connect ==
    /\ pc \in {"idle", "done"}
    /\ connection' = IF connection = "none" THEN "open" ELSE connection
    /\ UNCHANGED <<server_variables, client_config, table, committed, pc, values,
                   max_allowed_packet, packet_size, packet_iterations, batch_size,
                   batches, bi, ri, step_errors, errors, raised, attempts, faults>>
    /\ UNCHANGED <<tvars, xvars>>

\* lines 116-118: commit, then close the connection
close ==
    /\ committed' = committed \o table
    /\ table' = <<>>
    /\ connection' = "closed"

\* close(): commits and closes when self.connection is set; the attribute
\* keeps referring to the closed connection object
Close ==
    /\ pc \in {"idle", "done"}
    /\ connection = "open"
    /\ close
    /\ UNCHANGED <<server_variables, client_config, pc, values,
                   max_allowed_packet, packet_size, packet_iterations, batch_size,
                   batches, bi, ri, step_errors, errors, raised, attempts, faults>>
    /\ UNCHANGED <<tvars, xvars>>

\* Execute without the test of line 289: the statement is run whatever
\* self.connection is
ExecuteWithoutGuard ==
    /\ pc \in {"idle", "done"}
    /\ exec_log' = exec_log \cup {[conn |-> connection, ran |-> TRUE]}
    /\ UNCHANGED <<dbvars, tvars, rvars, ivars, kvars, svars, gvars, qvars>>

\* lines 283-321: execute(query) called directly. Without a connection it
\* raises 'You must connect first!'; on a closed connection object the driver
\* raises; on an open connection the statement runs on the store
Execute ==
    /\ pc \in {"idle", "done"}
    /\ exec_log' = exec_log \cup {[conn |-> connection, ran |-> connection = "open"]}
    /\ UNCHANGED <<dbvars, tvars, rvars, ivars, kvars, svars, gvars, qvars>>

\* ------------------------------------------------------------ DB.insert_many
\* a call of insert_many(query, values)
InsertManyCall ==
    /\ pc = "idle"
    /\ \E vs \in SeqsUpTo(RowLens, MaxRows) : values' = vs
    /\ pc' = "limits"
    /\ UNCHANGED <<server_variables, client_config, connection, table, committed,
                   max_allowed_packet, packet_size, packet_iterations, batch_size,
                   batches, bi, ri, step_errors, errors, raised, attempts, faults>>
    /\ UNCHANGED <<tvars, xvars>>

\* LimitsError without the else branch of line 173: a missing server variable
\* is not an error
LimitsErrorIgnoresServer ==
    IF connection = "none" THEN "Exception: You must connect first!"
    ELSE IF connection = "closed" THEN "InterfaceError"
    ELSE IF client_config.kind = "nosetting"
         THEN "Exception: CLIENT_CONFIG_FILE is missing from settings.py."
    ELSE IF client_config.kind = "nooption" THEN "NoOptionError"
    ELSE IF ~ClientLimitParses(client_config.text) THEN "ValueError: int()"
    ELSE "none"

\* the exception lines 166-207 end with, or "none"
LimitsError ==
    IF connection = "none" THEN "Exception: You must connect first!"
    ELSE IF connection = "closed" THEN "InterfaceError"
    ELSE IF ~server_variables.present
         THEN "Exception: Unable to retrieve max_allowed_packet from server."
    ELSE IF client_config.kind = "nosetting"
         THEN "Exception: CLIENT_CONFIG_FILE is missing from settings.py."
    ELSE IF client_config.kind = "nooption" THEN "NoOptionError"
    ELSE IF ~ClientLimitParses(client_config.text) THEN "ValueError: int()"
    ELSE "none"

\* lines 166-207: read the server and the client limit, take the minimum
ReadLimits ==
    /\ pc = "limits"
    /\ IF LimitsError # "none"
       THEN /\ raised' = LimitsError
            /\ pc' = "done"
            /\ UNCHANGED max_allowed_packet
       ELSE /\ max_allowed_packet' =
                   Min(ClientLimit(client_config.text), server_variables.value)
            /\ pc' = "size"
            /\ UNCHANGED raised
    /\ UNCHANGED <<server_variables, client_config, connection, table, committed,
                   values, packet_size, packet_iterations, batch_size,
                   batches, bi, ri, step_errors, errors, attempts, faults>>
    /\ UNCHANGED <<tvars, xvars>>

\* PacketIterations without lines 218-219: the quotient is not rounded up
PacketIterationsFloor(size, limit) == size \div limit

\* packet_iterations of lines 216-219, for a non-zero limit
PacketIterations(size, limit) ==
    (size \div limit) + (IF size % limit # 0 THEN 1 ELSE 0)

\* line 221
BatchSize(n, iterations) == n \div (iterations + 1)

\* lines 214-221: estimate the packet size and derive the batch size
ComputeBatchSize ==
    /\ pc = "size"
    /\ packet_size' = get_packet_size(values)
    /\ IF max_allowed_packet = 0
       THEN /\ raised' = "ZeroDivisionError"
            /\ pc' = "done"
            /\ UNCHANGED <<packet_iterations, batch_size>>
       ELSE /\ packet_iterations' =
                   PacketIterations(get_packet_size(values), max_allowed_packet)
            /\ batch_size' =
                   BatchSize(Len(values),
                       PacketIterations(get_packet_size(values), max_allowed_packet))
            /\ pc' = "partition"
            /\ UNCHANGED raised
    /\ UNCHANGED <<server_variables, client_config, connection, table, committed,
                   values, max_allowed_packet, batches, bi, ri, step_errors,
                   errors, attempts, faults>>
    /\ UNCHANGED <<tvars, xvars>>

\* lines 223-225: errors = [] and the list of batches; xrange rejects a zero step
PartitionRows ==
    /\ pc = "partition"
    /\ errors' = <<>>
    /\ IF batch_size = 0
       THEN /\ raised' = "ValueError: xrange() arg 3 must not be zero"
            /\ pc' = "done"
            /\ UNCHANGED <<batches, bi>>
       ELSE /\ batches' = Partition(Len(values), batch_size)
            /\ bi' = 1
            /\ pc' = "batch"
            /\ UNCHANGED raised
    /\ UNCHANGED <<server_variables, client_config, connection, table, committed,
                   values, max_allowed_packet, packet_size, packet_iterations,
                   batch_size, ri, step_errors, attempts, faults>>
    /\ UNCHANGED <<tvars, xvars>>

\* rendered lengths of the rows of a batch
BatchLens(batch) == [k \in 1..Len(batch) |-> values[batch[k]]]

\* the store takes the multi-row statement cursor.executemany builds for a batch
StoreAcceptsMany(batch) == get_packet_size(BatchLens(batch)) <= StoreLimit

\* the store takes the statement cursor.execute builds for one row
StoreAcceptsRow(r) == RowStatementSize(values[r]) <= StoreLimit

\* TryBatch with _step_through_batch outside the except clause: the batch is
\* stepped through whether its multi-row insert failed or not
TryBatchAlwaysSteps ==
    /\ pc = "batch"
    /\ bi <= Len(batches)
    /\ \E fault \in BOOLEAN :
        /\ fault => (faults < MaxFaults /\ StoreAcceptsMany(batches[bi]))
        /\ faults' = IF fault THEN faults + 1 ELSE faults
        /\ LET ok == ~fault /\ StoreAcceptsMany(batches[bi])
           IN  /\ attempts' = Append(attempts,
                      [kind |-> "many", rows |-> batches[bi], ok |-> ok])
               /\ table' = IF ok THEN table \o batches[bi] ELSE table
               /\ pc' = "step"
               /\ ri' = 1
               /\ step_errors' = <<>>
               /\ UNCHANGED bi
    /\ UNCHANGED <<server_variables, client_config, connection, committed,
                   values, max_allowed_packet, packet_size, packet_iterations,
                   batch_size, batches, errors, raised>>
    /\ UNCHANGED <<tvars, xvars>>

\* lines 226-231: self.execute(query, batch, many=True); any exception
\* starts _step_through_batch on the same batch
TryBatch ==
    /\ pc = "batch"
    /\ bi <= Len(batches)
    /\ \E fault \in BOOLEAN :
        /\ fault => (faults < MaxFaults /\ StoreAcceptsMany(batches[bi]))
        /\ faults' = IF fault THEN faults + 1 ELSE faults
        /\ LET ok == ~fault /\ StoreAcceptsMany(batches[bi])
           IN  /\ attempts' = Append(attempts,
                      [kind |-> "many", rows |-> batches[bi], ok |-> ok])
               /\ IF ok
                  THEN /\ table' = table \o batches[bi]
                       /\ bi' = bi + 1
                       /\ pc' = "batch"
                       /\ UNCHANGED <<ri, step_errors>>
                  ELSE /\ pc' = "step"
                       /\ ri' = 1
                       /\ step_errors' = <<>>
                       /\ UNCHANGED <<table, bi>>
    /\ UNCHANGED <<server_variables, client_config, connection, committed,
                   values, max_allowed_packet, packet_size, packet_iterations,
                   batch_size, batches, errors, raised>>
    /\ UNCHANGED <<tvars, xvars>>

\* StepRow leaving the loop of _step_through_batch at the first row that fails
StepRowStopsAtFailure ==
    /\ pc = "step"
    /\ IF ri <= Len(batches[bi])
       THEN \E fault \in BOOLEAN :
            /\ fault => (faults < MaxFaults /\ StoreAcceptsRow(batches[bi][ri]))
            /\ faults' = IF fault THEN faults + 1 ELSE faults
            /\ LET r == batches[bi][ri]
                   ok == ~fault /\ StoreAcceptsRow(r)
               IN  /\ attempts' = Append(attempts,
                          [kind |-> "single", rows |-> <<r>>, ok |-> ok])
                   /\ table' = IF ok THEN Append(table, r) ELSE table
                   /\ step_errors' = IF ok THEN step_errors
                                     ELSE Append(step_errors, "OperationalError")
                   /\ ri' = IF ok THEN ri + 1 ELSE Len(batches[bi]) + 1
            /\ UNCHANGED <<errors, bi, pc>>
       ELSE /\ errors' = Append(errors, step_errors)
            /\ bi' = bi + 1
            /\ pc' = "batch"
            /\ UNCHANGED <<attempts, table, step_errors, faults, ri>>
    /\ UNCHANGED <<server_variables, client_config, connection, committed,
                   values, max_allowed_packet, packet_size, packet_iterations,
                   batch_size, batches, raised>>
    /\ UNCHANGED <<tvars, xvars>>

\* lines 126-132 and 231: one iteration of _step_through_batch, or its return
\* and errors.append(<the list it returned>)
StepRow ==
    /\ pc = "step"
    /\ IF ri <= Len(batches[bi])
       THEN \E fault \in BOOLEAN :
            /\ fault => (faults < MaxFaults /\ StoreAcceptsRow(batches[bi][ri]))
            /\ faults' = IF fault THEN faults + 1 ELSE faults
            /\ LET r == batches[bi][ri]
                   ok == ~fault /\ StoreAcceptsRow(r)
               IN  /\ attempts' = Append(attempts,
                          [kind |-> "single", rows |-> <<r>>, ok |-> ok])
                   /\ table' = IF ok THEN Append(table, r) ELSE table
                   /\ step_errors' = IF ok THEN step_errors
                                     ELSE Append(step_errors, "OperationalError")
            /\ ri' = ri + 1
            /\ UNCHANGED <<errors, bi, pc>>
       ELSE /\ errors' = Append(errors, step_errors)
            /\ bi' = bi + 1
            /\ pc' = "batch"
            /\ UNCHANGED <<attempts, table, step_errors, faults, ri>>
    /\ UNCHANGED <<server_variables, client_config, connection, committed,
                   values, max_allowed_packet, packet_size, packet_iterations,
                   batch_size, batches, raised>>
    /\ UNCHANGED <<tvars, xvars>>

\* line 233: return errors
Return ==
    /\ pc = "batch"
    /\ bi > Len(batches)
    /\ pc' = "done"
    /\ UNCHANGED <<server_variables, client_config, connection, table, committed,
                   values, max_allowed_packet, packet_size, packet_iterations,
                   batch_size, batches, bi, ri, step_errors, errors, raised,
                   attempts, faults>>
    /\ UNCHANGED <<tvars, xvars>>

Next ==
    \/ Connect
    \/ Close
    \/ Execute
    \/ InsertManyCall
    \/ ReadLimits
    \/ ComputeBatchSize
    \/ PartitionRows
    \/ TryBatch
    \/ StepRow
    \/ Return

Spec == Init /\ [][Next]_vars

\* --------------------------------------------------- derived views of a run
\* insert_many has returned its error list
Returned == pc = "done" /\ raised = "none"

\* rows whose individual insert failed
FailedRows ==
    {attempts[k].rows[1] : k \in {n \in 1..Len(attempts) :
                                    attempts[n].kind = "single" /\ ~attempts[n].ok}}

\* exceptions raised by lines 166-207, before any limit is known
LimitErrors ==
    { "Exception: You must connect first!",
      "InterfaceError",
      "Exception: Unable to retrieve max_allowed_packet from server.",
      "Exception: CLIENT_CONFIG_FILE is missing from settings.py.",
      "NoOptionError",
      "ValueError: int()" }

\* the activation got past lines 166-207 with a limit of at least one byte
LimitKnown ==
    /\ pc \in {"size", "partition", "batch", "step", "done"}
    /\ raised \notin LimitErrors
    /\ max_allowed_packet >= 1

\* the server variable or the client option cannot be read or parsed
ConfigUnreadable ==
    \/ ~server_variables.present
    \/ client_config.kind # "value"
    \/ ~ClientLimitParses(client_config.text)

Rows == 1..Len(values)

\* rows present in the store, committed or not
Inserted == Range(table) \cup Range(committed)

\* rows whose own statement exceeds the payload ceiling
Oversized == {r \in Rows : ~StoreAcceptsRow(r)}

\* the rows of the multi-row attempts, in the order they were made
ManyAttempted ==
    LET IsMany(a) == a.kind = "many"
        many == SelectSeq(attempts, IsMany)
    IN  [k \in 1..Len(many) |-> many[k].rows]

\* ------------------------------------------------------------------ claims

\* C1: for any row sequence of length N and any effective limit, insert_many
\* returns an error list of length <= N, and every row that is not reported
\* in it is committed in the store when insert_many returns.
C1_ReturnsErrorsAndRestCommitted ==
    (pc = "done" /\ LimitKnown /\ values # <<>>) =>
        /\ raised = "none"
        /\ Len(errors) <= Len(values)
        /\ \A r \in Rows : r \notin FailedRows => r \in Range(committed)

\* C2: when exactly one row is larger than the effective limit and nothing
\* else fails, insert_many reports exactly one error, for that row, and every
\* other row is inserted.
C2_OnlyOversizedRowReported ==
    (pc = "done" /\ LimitKnown /\ Cardinality(Oversized) = 1 /\ faults = 0) =>
        /\ raised = "none"
        /\ Len(errors) = 1
        /\ FailedRows = Oversized
        /\ Rows \ Oversized \subseteq Inserted

\* C3: the batch size used to partition the rows is never zero while rows
\* remain: when floor(totalRows / (packetsRequired + 1)) is zero the batch size
\* is totalRows.
C3_BatchSizeNeverZero ==
    (pc = "partition" /\ Len(values) > 0) =>
        /\ batch_size > 0
        /\ BatchSize(Len(values), packet_iterations) = 0 => batch_size = Len(values)

\* C4: with an empty row sequence and readable limits insert_many attempts no
\* batch, issues no insert, raises nothing and returns an empty error list.
C4_EmptyInputReturnsEmpty ==
    (pc = "done" /\ LimitKnown /\ values = <<>>) =>
        /\ raised = "none"
        /\ errors = <<>>
        /\ attempts = <<>>

\* C5: insert_many raises only when the batch parameters cannot be determined
\* (server or client max_allowed_packet unreadable); with a known limit of at
\* least one byte it returns normally whatever inserts fail.
C5_RaisesOnlyForUnreadableLimits ==
    (pc = "done" /\ raised # "none" /\ values # <<>>) =>
        (raised \in LimitErrors \/ max_allowed_packet = 0)

\* C6: when the multi-row insert of a batch fails, every row of that batch is
\* attempted individually, in batch order, right after it; a failing row stops
\* neither the rest of its batch nor the following batches, so at the end every
\* batch of the partition has been attempted.
C6_FailedBatchSteppedThrough ==
    /\ \A k \in 1..Len(attempts) :
          (attempts[k].kind = "many" /\ ~attempts[k].ok) =>
              \A m \in 1..Len(attempts[k].rows) :
                  /\ k + m <= Len(attempts) =>
                        /\ attempts[k + m].kind = "single"
                        /\ attempts[k + m].rows = <<attempts[k].rows[m]>>
                  /\ (pc \in {"batch", "done"}) => k + m <= Len(attempts)
    /\ (pc = "done" /\ batches # <<>>) =>
          /\ raised = "none"
          /\ ManyAttempted = batches

\* C6 witness: a returned run in which a batch failed, a row of it that is not
\* its last failed individually, and a later batch was still attempted
C6_Witness ==
    /\ Returned
    /\ \E k \in 1..Len(attempts) :
          /\ attempts[k].kind = "many" /\ ~attempts[k].ok
          /\ Len(attempts[k].rows) >= 2
          /\ k + 1 <= Len(attempts) /\ ~attempts[k + 1].ok
          /\ \E n \in (k + 1)..Len(attempts) : attempts[n].kind = "many"

\* C7: the returned list holds one entry per row that failed individual
\* insertion and none for the others: it is empty exactly when every row was
\* inserted.
C7_OneErrorPerFailedRow ==
    Returned =>
        /\ Len(errors) = Cardinality(FailedRows)
        /\ (errors = <<>>) <=> (Rows \subseteq Inserted)

UpdateCall ==
    /\ upc = "Idle"
    /\ updates < MaxUpdates
    /\ \E hs \in BOOLEAN, n \in 0..MaxSource :
        \E f \in 0..(n + 1) :
            /\ ~hs => (n = 0 /\ f = 0)
            /\ has_source' = hs
            /\ source_rows' = [k \in 1..n |-> k]
            /\ fail_at' = f
    /\ instances' = <<>>
    /\ trace' = <<>>
    /\ path' = <<"Idle", "Fetching">>
    /\ upc' = "Fetching"
    /\ updates' = updates + 1
    /\ UNCHANGED <<insert_calls, warehouse, results>>
    /\ UNCHANGED <<dbvars, xvars>>

\* FetchNext with finish in a finally clause: it is called on the error path too
FetchNextAlwaysFinishes ==
    /\ upc = "Fetching"
    /\ IF ~has_source
       THEN /\ upc' = "Failed"
            /\ path' = Append(path, "Failed")
            /\ UNCHANGED <<instances, trace>>
       ELSE IF fail_at = Len(instances) + 1
       THEN /\ upc' = "Failed"
            /\ path' = Append(path, "Failed")
            /\ trace' = Append(Append(trace, "log.error"), "finish")
            /\ UNCHANGED instances
       ELSE IF Len(instances) < Len(source_rows)
       THEN /\ instances' = Append(instances, source_rows[Len(instances) + 1])
            /\ UNCHANGED <<upc, path, trace>>
       ELSE /\ upc' = "Finishing"
            /\ path' = Append(path, "Finishing")
            /\ UNCHANGED <<instances, trace>>
    /\ UNCHANGED <<has_source, source_rows, fail_at, insert_calls, warehouse,
                   results, updates>>
    /\ UNCHANGED <<dbvars, xvars>>

\* lines 108-121 driven by list() at line 147: the next item of the generator.
\* Without a source fetch raises NotImplementedError; an exception of select
\* is logged and re-raised; exhaustion leads to the else clause of the try.
FetchNext ==
    /\ upc = "Fetching"
    /\ IF ~has_source
       THEN /\ upc' = "Failed"
            /\ path' = Append(path, "Failed")
            /\ UNCHANGED <<instances, trace>>
       ELSE IF fail_at = Len(instances) + 1
       THEN /\ upc' = "Failed"
            /\ path' = Append(path, "Failed")
            /\ trace' = Append(trace, "log.error")
            /\ UNCHANGED instances
       ELSE IF Len(instances) < Len(source_rows)
       THEN /\ instances' = Append(instances, source_rows[Len(instances) + 1])
            /\ UNCHANGED <<upc, path, trace>>
       ELSE /\ upc' = "Finishing"
            /\ path' = Append(path, "Finishing")
            /\ UNCHANGED <<instances, trace>>
    /\ UNCHANGED <<has_source, source_rows, fail_at, insert_calls, warehouse,
                   results, updates>>
    /\ UNCHANGED <<dbvars, xvars>>

\* lines 117-119: cls.__source__.finish(cls), then the generator is exhausted
\* and list() returns
Finish ==
    /\ upc = "Finishing"
    /\ trace' = Append(trace, "finish")
    /\ upc' = "Inserting"
    /\ path' = Append(path, "Inserting")
    /\ UNCHANGED <<has_source, source_rows, fail_at, instances, insert_calls,
                   warehouse, results, updates>>
    /\ UNCHANGED <<dbvars, xvars>>

\* lines 148-151 and 124-141: cls.insert(*instances); one statement is
\* executed when there are instances, none otherwise; update returns
Insert ==
    /\ upc = "Inserting"
    /\ insert_calls' = Append(insert_calls, instances)
    /\ warehouse' = IF instances # <<>> THEN warehouse \o instances ELSE warehouse
    /\ trace' = Append(trace, "insert")
    /\ upc' = "Idle"
    /\ path' = Append(path, "Idle")
    /\ results' = Append(results, "returned")
    /\ UNCHANGED <<has_source, source_rows, fail_at, instances, updates>>
    /\ UNCHANGED <<dbvars, xvars>>

\* FailReturn of an update that inserts what was fetched before re-raising
FailReturnInsertsFetched ==
    /\ upc = "Failed"
    /\ upc' = "Idle"
    /\ path' = Append(path, "Idle")
    /\ results' = Append(results, "raised")
    /\ insert_calls' = Append(insert_calls, instances)
    /\ warehouse' = IF instances # <<>> THEN warehouse \o instances ELSE warehouse
    /\ UNCHANGED <<has_source, source_rows, fail_at, instances, trace, updates>>
    /\ UNCHANGED <<dbvars, xvars>>

\* the exception leaves list() and update(): line 151 is not reached
FailReturn ==
    /\ upc = "Failed"
    /\ upc' = "Idle"
    /\ path' = Append(path, "Idle")
    /\ results' = Append(results, "raised")
    /\ UNCHANGED <<has_source, source_rows, fail_at, instances, trace,
                   insert_calls, warehouse, updates>>
    /\ UNCHANGED <<dbvars, xvars>>

UpdateInit ==
    /\ server_variables = [present |-> TRUE, value |-> LargeLimit]
    /\ client_config = [kind |-> "value", text |-> <<"1", "k">>]
    /\ DBConstructed
    /\ TableInit
    /\ XInit

UpdateNext ==
    \/ UpdateCall
    \/ FetchNext
    \/ Finish
    \/ Insert
    \/ FailReturn

SpecUpdate == UpdateInit /\ [][UpdateNext]_vars

\* ----------------------------------------------------- views of an update
\* the source raises at some point of the fetch
SourceRaises == has_source /\ fail_at # 0

\* the current update has called the source's finish hook
FinishCalled == "finish" \in Range(trace)

\* the update that ran last has ended
UpdateEnded == upc = "Idle" /\ updates > 0

LastResult == results[Len(results)]

RECURSIVE Flatten(_)
Flatten(ss) == IF ss = <<>> THEN <<>> ELSE Head(ss) \o Flatten(Tail(ss))

IsPrefix(s, t) == Len(s) <= Len(t) /\ s = SubSeq(t, 1, Len(s))

\* C9: the source's finish hook is called only if the entire fetch completed
\* without error; if the source raises at any point of the fetch, finish is
\* never called and the error propagates to the caller of update.
C9_FinishOnlyAfterCompleteFetch ==
    /\ FinishCalled => (has_source /\ fail_at = 0 /\ instances = source_rows)
    /\ (upc = "Failed" \/ (UpdateEnded /\ LastResult = "raised")) => ~FinishCalled
    /\ (UpdateEnded /\ SourceRaises) => LastResult = "raised"
    /\ (UpdateEnded /\ has_source /\ fail_at = 0) =>
          (LastResult = "returned" /\ FinishCalled)

\* C9 witness: the source raised after yielding 3 of 5 rows and update ended
C9_Witness ==
    /\ UpdateEnded
    /\ Len(source_rows) = 5
    /\ fail_at = 4
    /\ Len(instances) = 3
    /\ LastResult = "raised"

\* C10: update goes Idle -> Fetching -> Finishing -> Inserting -> Idle or
\* Idle -> Fetching -> Failed -> Idle; insert is invoked exactly once per
\* successful update, with the full fetched sequence, after the fetch has
\* completed and finish has been called, and never when the fetch fails.
C10_UpdateLifecycle ==
    /\ \/ IsPrefix(path, <<"Idle", "Fetching", "Finishing", "Inserting", "Idle">>)
       \/ IsPrefix(path, <<"Idle", "Fetching", "Failed", "Idle">>)
    /\ upc = path[Len(path)]
    /\ Len(insert_calls) = Cardinality({k \in 1..Len(results) : results[k] = "returned"})
    /\ upc = "Inserting" => (FinishCalled /\ instances = source_rows)
    /\ "insert" \in Range(trace) =>
          /\ trace = <<"finish", "insert">>
          /\ insert_calls[Len(insert_calls)] = source_rows
    /\ (UpdateEnded /\ LastResult = "raised") => "insert" \notin Range(trace)
    /\ warehouse = Flatten(insert_calls)

\* C10 witness: a failed update that had yielded rows, followed by a
\* successful one whose rows were handed to insert in one call
C10_Witness ==
    /\ UpdateEnded
    /\ results = <<"raised", "returned">>
    /\ Len(source_rows) >= 3
    /\ insert_calls = <<source_rows>>
    /\ warehouse = source_rows

FactKinds == [loads : BOOLEAN, fails : BOOLEAN]

dbidle == <<server_variables, client_config, pc, values, max_allowed_packet,
            packet_size, packet_iterations, batch_size, batches, bi, ri,
            step_errors, errors, raised, attempts, faults>>

\* lines 129-132: run_command(db_name, facts, command) enters `with DB(db_name)`:
\* DB.__init__, then __enter__ calls connect()
RunCommandCall ==
    /\ rpc = "start"
    /\ connection = "none"
    /\ \E fs \in SeqsUpTo(FactKinds, MaxFacts), sf \in {"none", "setup", "exit"} :
        /\ facts' = fs
        /\ script_fault' = sf
    /\ connection' = "open"
    /\ fact_classes' = <<>>
    /\ load_i' = 1
    /\ rpc' = "load"
    /\ UNCHANGED <<run_i, commanded, run_errors, table, committed>>
    /\ UNCHANGED <<dbidle, tvars, nonrun>>

\* lines 136-146: get_class(fact)(connection=...); a failure is logged and the
\* fact is left out of fact_classes
LoadFact ==
    /\ rpc = "load"
    /\ IF load_i <= Len(facts)
       THEN /\ fact_classes' = IF facts[load_i].loads
                               THEN Append(fact_classes, load_i)
                               ELSE fact_classes
            /\ load_i' = load_i + 1
            /\ UNCHANGED rpc
       ELSE /\ rpc' = "setup"
            /\ UNCHANGED <<fact_classes, load_i>>
    /\ UNCHANGED <<facts, script_fault, run_i, commanded, run_errors>>
    /\ UNCHANGED <<dbvars, tvars, nonrun>>

\* lines 148-155: setup scripts; an exception that _process_scripts does not
\* catch leaves the with block
SetupScripts ==
    /\ rpc = "setup"
    /\ IF script_fault = "setup"
       THEN rpc' = "unwind" /\ UNCHANGED run_i
       ELSE rpc' = "run" /\ run_i' = 1
    /\ UNCHANGED <<facts, script_fault, fact_classes, load_i, commanded, run_errors>>
    /\ UNCHANGED <<dbvars, tvars, nonrun>>

\* RunFact re-raising the exception of a command instead of recording it
RunFactAborts ==
    /\ rpc = "run"
    /\ IF run_i <= Len(fact_classes)
       THEN /\ commanded' = Append(commanded, fact_classes[run_i])
            /\ IF facts[fact_classes[run_i]].fails
               THEN /\ rpc' = "unwind"
                    /\ UNCHANGED <<run_errors, table>>
               ELSE /\ table' = Append(table, fact_classes[run_i])
                    /\ UNCHANGED <<run_errors, rpc>>
            /\ run_i' = run_i + 1
       ELSE /\ rpc' = "exitscripts"
            /\ UNCHANGED <<commanded, run_errors, table, run_i>>
    /\ UNCHANGED <<facts, script_fault, fact_classes, load_i>>
    /\ UNCHANGED <<connection, committed, dbidle, tvars, nonrun>>

\* lines 157-168: getattr(fact_class, command)() for the next loaded fact; an
\* exception is stored in errors under the fact's key; a command that returns
\* leaves its rows pending on the connection
RunFact ==
    /\ rpc = "run"
    /\ IF run_i <= Len(fact_classes)
       THEN /\ commanded' = Append(commanded, fact_classes[run_i])
            /\ IF facts[fact_classes[run_i]].fails
               THEN /\ run_errors' = run_errors \cup {fact_classes[run_i]}
                    /\ UNCHANGED table
               ELSE /\ table' = Append(table, fact_classes[run_i])
                    /\ UNCHANGED run_errors
            /\ run_i' = run_i + 1
            /\ UNCHANGED rpc
       ELSE /\ rpc' = "exitscripts"
            /\ UNCHANGED <<commanded, run_errors, table, run_i>>
    /\ UNCHANGED <<facts, script_fault, fact_classes, load_i>>
    /\ UNCHANGED <<connection, committed, dbidle, tvars, nonrun>>

\* lines 170-178: exit scripts; an uncaught exception leaves the with block
ExitScripts ==
    /\ rpc = "exitscripts"
    /\ rpc' = IF script_fault = "exit" THEN "unwind" ELSE "exit"
    /\ UNCHANGED <<facts, script_fault, fact_classes, load_i, run_i, commanded,
                   run_errors>>
    /\ UNCHANGED <<dbvars, tvars, nonrun>>

\* ScopeExit of a connection closed by a plain call after the body: an
\* exception in the body skips it
ScopeExitOnlyOnSuccess ==
    /\ rpc \in {"exit", "unwind"}
    /\ IF rpc = "exit"
       THEN close /\ rpc' = "summary"
       ELSE rpc' = "raised" /\ UNCHANGED <<connection, table, committed>>
    /\ UNCHANGED <<facts, script_fault, fact_classes, load_i, run_i, commanded,
                   run_errors>>
    /\ UNCHANGED <<dbidle, tvars, nonrun>>

\* connection.py 327-328 at the end of the with block of main.py 132-178:
\* __exit__ calls close() whether the body returned or raised
ScopeExit ==
    /\ rpc \in {"exit", "unwind"}
    /\ close
    /\ rpc' = IF rpc = "exit" THEN "summary" ELSE "raised"
    /\ UNCHANGED <<facts, script_fault, fact_classes, load_i, run_i, commanded,
                   run_errors>>
    /\ UNCHANGED <<dbidle, tvars, nonrun>>

\* line 180: print_summary(errors), reached when the with block returned
PrintSummary ==
    /\ rpc = "summary"
    /\ rpc' = "returned"
    /\ UNCHANGED <<facts, script_fault, fact_classes, load_i, run_i, commanded,
                   run_errors>>
    /\ UNCHANGED <<dbvars, tvars, nonrun>>

RunSpecInit ==
    /\ server_variables = [present |-> TRUE, value |-> LargeLimit]
    /\ client_config = [kind |-> "value", text |-> <<"1", "k">>]
    /\ DBConstructed
    /\ TableInit
    /\ XInit

RunNext ==
    \/ RunCommandCall
    \/ LoadFact
    \/ SetupScripts
    \/ RunFact
    \/ ExitScripts
    \/ ScopeExit
    \/ PrintSummary

SpecRun == RunSpecInit /\ [][RunNext]_vars

\* the facts of the argument whose class loads, in order
Loadable ==
    LET idx == [k \in 1..Len(facts) |-> k]
        Loads(k) == facts[k].loads
    IN  SelectSeq(idx, Loads)

\* control has left the with block
ScopeLeft == rpc \in {"summary", "returned", "raised"}

\* C11: a connection acquired with `with DB(name)` is released on every exit
\* path of the block, normal or by exception: pending work is committed and
\* the connection is then closed.
C11_ScopedConnectionReleased ==
    /\ rpc \in {"load", "setup", "run", "exitscripts", "exit", "unwind"} =>
          connection = "open"
    /\ ScopeLeft =>
          /\ connection = "closed"
          /\ table = <<>>
          /\ Range(committed) = Range(commanded) \ run_errors

\* C11 witness: the block was left by an exception with work pending, which
\* is committed
C11_Witness ==
    /\ rpc = "raised"
    /\ committed # <<>>
    /\ connection = "closed"

\* C13: a fact that cannot be loaded or whose command raises does not block
\* the others: the command is executed for every loaded fact, and each
\* command failure is recorded in errors under that fact's key.
C13_FactFailuresIsolated ==
    /\ rpc \in {"setup", "run", "exitscripts", "exit", "summary", "returned"} =>
          fact_classes = Loadable
    /\ rpc = "run" => commanded = SubSeq(fact_classes, 1, run_i - 1)
    /\ rpc \in {"exitscripts", "exit", "summary", "returned"} =>
          commanded = Loadable
    /\ rpc \in {"run", "exitscripts", "exit", "unwind", "summary", "returned", "raised"} =>
          run_errors = {k \in Range(commanded) : facts[k].fails}

\* C13 witness: a run with a fact that did not load and a fact whose command
\* raised, after which the command of a later fact still ran
C13_Witness ==
    /\ rpc = "returned"
    /\ \E u, f, g \in 1..Len(facts) :
          /\ u < g /\ f < g
          /\ ~facts[u].loads
          /\ f \in run_errors
          /\ g \in Range(committed)

\* C17: once insert_many is past its partition step, the batches are
\* consecutive runs of the input: concatenated in order they give back the input
\* rows, every batch but the last has batch_size rows and the last has between
\* 1 and batch_size rows.
C17_BatchesPartitionRows ==
    (LimitKnown /\ pc \in {"batch", "step", "done"}) =>
        /\ Flatten(batches) = [k \in 1..Len(values) |-> k]
        /\ \A b \in 1..Len(batches) :
              /\ Len(batches[b]) >= 1
              /\ Len(batches[b]) <= batch_size
              /\ b < Len(batches) => Len(batches[b]) = batch_size

\* the attempts of a kind that a row took part in
AttemptsOf(r, kind) ==
    {k \in 1..Len(attempts) : attempts[k].kind = kind /\ r \in Range(attempts[k].rows)}

\* the rows in the store, oldest first
Stored == committed \o table

C24_InsertsInInputOrder ==
    /\ IsPrefix(ManyAttempted, batches)
    /\ \A k \in 1..Len(attempts) :
          (attempts[k].kind = "many" /\ ~attempts[k].ok) =>
              \A j \in (k + 1)..Len(attempts) :
                  attempts[j].kind = "many" => j > k + Len(attempts[k].rows)
    /\ \A j, k \in 1..Len(attempts) :
          (j < k /\ attempts[j].kind = attempts[k].kind) =>
              \A x \in Range(attempts[j].rows), y \in Range(attempts[k].rows) : x < y
    /\ \A k \in 1..Len(attempts) :
          \A m, n \in 1..Len(attempts[k].rows) :
              m < n => attempts[k].rows[m] < attempts[k].rows[n]
    /\ \A a, b \in 1..Len(Stored) : a < b => Stored[a] < Stored[b]

\* C24 witness: the first batch failed, one of its rows was refused, a later
\* batch was inserted, and the connection was closed with the rows committed
C24_Witness ==
    /\ Returned
    /\ connection = "closed"
    /\ Len(attempts) >= 4
    /\ attempts[1].kind = "many" /\ ~attempts[1].ok /\ Len(attempts[1].rows) >= 2
    /\ ~attempts[2].ok
    /\ attempts[Len(attempts)].kind = "many" /\ attempts[Len(attempts)].ok
    /\ Len(committed) >= 3

\* ------------------------------------ the arithmetic of insert_many, alone
\* digits the option texts are written with
DigitChoices == {"1", "2", "5", "6"}

DigitTexts == SeqsUpTo(DigitChoices, MaxDigits) \ {<<>>}

\* option texts of my.cnf: a number, or a number and a K, M or G in either
\* case; the longest numbers carry no M and only "1" and "2" carry a G, which
\* keeps every limit below 2^31
OptionTexts ==
    DigitTexts
    \cup {Append(d, u) : d \in DigitTexts, u \in {"K", "k"}}
    \cup {Append(d, u) : d \in {t \in DigitTexts : Len(t) < 3}, u \in {"M", "m"}}
    \cup {Append(d, u) : d \in {<<"1">>, <<"2">>}, u \in {"G", "g"}}

ParseInputs ==
    {[kind |-> "parse", text |-> t, server |-> v, size |-> 0, limit |-> 0, n |-> 0, step |-> 0] :
        t \in OptionTexts, v \in {SmallLimit, LargeLimit}}

DeriveInputs ==
    {[kind |-> "derive", text |-> <<>>, server |-> 0, size |-> s, limit |-> l, n |-> c, step |-> 0] :
        s \in 0..MaxSize, l \in 1..MaxLimit, c \in 0..MaxCount}

SplitInputs ==
    {[kind |-> "split", text |-> <<>>, server |-> 0, size |-> 0, limit |-> 0, n |-> c, step |-> b] :
        c \in 0..MaxCount, b \in 1..MaxCount}

\* lines 197-207: the client limit and the limit used for batching
ParseLimit ==
    /\ calc_pc = "ready"
    /\ calc_in.kind = "parse"
    /\ calc_out' = [calc_out EXCEPT
                       !.client = ClientLimit(calc_in.text),
                       !.limit = Min(ClientLimit(calc_in.text), calc_in.server)]
    /\ calc_pc' = "done"
    /\ UNCHANGED calc_in
    /\ UNCHANGED <<dbvars, tvars, rvars, cvars, ivars, svars, gvars, qvars>>

\* lines 216-221: packet_iterations and batch_size
DeriveBatchSize ==
    /\ calc_pc = "ready"
    /\ calc_in.kind = "derive"
    /\ calc_out' = [calc_out EXCEPT
                       !.iterations = PacketIterations(calc_in.size, calc_in.limit),
                       !.batch = BatchSize(calc_in.n,
                                     PacketIterations(calc_in.size, calc_in.limit))]
    /\ calc_pc' = "done"
    /\ UNCHANGED calc_in
    /\ UNCHANGED <<dbvars, tvars, rvars, cvars, ivars, svars, gvars, qvars>>

\* lines 224-225: the list of batches for a non-zero batch_size
SplitRows ==
    /\ calc_pc = "ready"
    /\ calc_in.kind = "split"
    /\ calc_out' = [calc_out EXCEPT !.batches = Partition(calc_in.n, calc_in.step)]
    /\ calc_pc' = "done"
    /\ UNCHANGED calc_in
    /\ UNCHANGED <<dbvars, tvars, rvars, cvars, ivars, svars, gvars, qvars>>

CalcInit ==
    /\ server_variables = [present |-> TRUE, value |-> LargeLimit]
    /\ client_config = [kind |-> "value", text |-> <<"1", "k">>]
    /\ DBConstructed
    /\ TableInit
    /\ RunInit
    /\ ExecInit
    /\ InsertIdle
    /\ SchemaIdle
    /\ RecordFresh
    /\ CatalogIdle
    /\ calc_pc = "ready"
    /\ calc_in \in ParseInputs \cup DeriveInputs \cup SplitInputs
    /\ calc_out = NoCalcOut

CalcNext == ParseLimit \/ DeriveBatchSize \/ SplitRows

SpecCalc == CalcInit /\ [][CalcNext]_vars

\* C15: the client limit text is read as a decimal number times 1000, 1000^2
\* or 1000^3 for a final K, M or G in either case ("16M" and "16m" give
\* 16,000,000, "2G" gives 2,000,000,000, "512" gives 512), and the limit used
\* for batching is the smaller of the server limit and the client limit.
C15_ClientLimitParsedBase1000 ==
    (calc_pc = "done" /\ calc_in.kind = "parse") =>
        LET t == calc_in.text
            last == t[Len(t)]
            factor == CASE last \in {"K", "k"} -> 1000
                        [] last \in {"M", "m"} -> 1000 * 1000
                        [] last \in {"G", "g"} -> 1000 * 1000 * 1000
                        [] OTHER -> 1
            d == IF last \in Digits THEN t ELSE SubSeq(t, 1, Len(t) - 1)
            number == SumSeq([k \in 1..Len(d) |-> DigitValue(d[k]) * Pow10(Len(d) - k)])
        IN  /\ calc_out.client = number * factor
            /\ t = <<"1", "6", "M">> => calc_out.client = 16000000
            /\ t = <<"1", "6", "m">> => calc_out.client = 16000000
            /\ t = <<"2", "G">> => calc_out.client = 2000000000
            /\ t = <<"5", "1", "2">> => calc_out.client = 512
            /\ calc_out.limit \in {calc_in.server, calc_out.client}
            /\ calc_out.limit <= calc_in.server
            /\ calc_out.limit <= calc_out.client

\* C15 witness: "16m" has been parsed against a smaller server limit
C15_Witness ==
    /\ calc_pc = "done"
    /\ calc_in.kind = "parse"
    /\ calc_in.text = <<"1", "6", "m">>
    /\ calc_out.client = 16000000
    /\ calc_out.limit = calc_in.server

\* C16: for a size S >= 0, a limit L >= 1 and N rows, packet_iterations is the
\* least integer p with p * L >= S (the ceiling of S / L) and batch_size is the
\* greatest integer b with b * (p + 1) <= N (the floor of N / (p + 1)).
C16_CeilingThenFloor ==
    (calc_pc = "done" /\ calc_in.kind = "derive") =>
        LET S == calc_in.size
            L == calc_in.limit
            N == calc_in.n
            p == calc_out.iterations
            b == calc_out.batch
        IN  /\ p >= 0
            /\ p * L >= S
            /\ (p - 1) * L < S
            /\ b >= 0
            /\ b * (p + 1) <= N
            /\ (b + 1) * (p + 1) > N

\* C16 witness: a size that is not a multiple of the limit and a row count
\* that is not a multiple of packet_iterations + 1
C16_Witness ==
    /\ calc_pc = "done"
    /\ calc_in.kind = "derive"
    /\ calc_in.size % calc_in.limit # 0
    /\ calc_out.iterations >= 2
    /\ calc_in.n % (calc_out.iterations + 1) # 0
    /\ calc_out.batch >= 1

\* --------------------------------------------------------------- Table.insert
\* columns a table class may declare; an AutoColumn has auto = TRUE
InsertableColumns ==
    { [name |-> "id", auto |-> TRUE],
      [name |-> "ring", auto |-> FALSE],
      [name |-> "checkpoint", auto |-> FALSE] }

\* the column lists __columns__ may hold: no name twice
ColumnLists ==
    {cs \in SeqsUpTo(InsertableColumns, MaxColumns) :
        /\ cs # <<>>
        /\ \A a, b \in 1..Len(cs) : cs[a].name = cs[b].name => a = b}

ColumnNames(cs) == {cs[k].name : k \in 1..Len(cs)}

\* attribute values of an instance; "unset" is an attribute never assigned
\* (the class attribute, i.e. the Column object, shows through)
AttributeValues == {"unset", "str:a"}

\* lines 153-162: instance[column_name] for a column of the class; None when
\* the attribute is still the Column object
Table_getitem(instance, column_name) ==
    IF instance[column_name] = "unset" THEN "None" ELSE instance[column_name]

\* dump(value): the SQL literal of a Python value
dump(value) ==
    CASE value = "None" -> "NULL"
      [] value = "str:a" -> "'a'"
      [] value = "int:7" -> "7"

\* escaped(identifier): the identifier as a quoted SQL identifier
escaped(identifier) == [quoted |-> identifier]

\* InsertColumns without the isinstance(column, AutoColumn) filter
InsertColumnsUnfiltered(cs) == cs

\* lines 128-129: the columns that are not AutoColumns, in __columns__ order
InsertColumns(cs) ==
    LET NotAuto(c) == ~c.auto
    IN  SelectSeq(cs, NotAuto)

\* lines 130-140: the statement built for a non-empty tuple of instances
InsertStatement(cs, insts) ==
    LET columns == InsertColumns(cs)
    IN  [ verb    |-> "INSERT",
          columns |-> [j \in 1..Len(columns) |-> escaped(columns[j].name)],
          rows    |-> [i \in 1..Len(insts) |->
                         [j \in 1..Len(columns) |->
                             dump(Table_getitem(insts[i], columns[j].name))]] ]

\* lines 123-141: cls.insert(*instances); Warehouse.execute is reached only
\* when there are instances
InsertCall ==
    /\ ins_pc = "idle"
    /\ \E insts \in SeqsUpTo([ColumnNames(ins_columns) -> AttributeValues], MaxInstances) :
        /\ ins_args' = insts
        /\ ins_statements' =
              IF insts # <<>>
              THEN Append(ins_statements, InsertStatement(ins_columns, insts))
              ELSE ins_statements
    /\ ins_pc' = "done"
    /\ UNCHANGED ins_columns
    /\ UNCHANGED <<dbvars, tvars, rvars, cvars, kvars, svars, gvars, qvars>>

InsertInit ==
    /\ server_variables = [present |-> TRUE, value |-> LargeLimit]
    /\ client_config = [kind |-> "value", text |-> <<"1", "k">>]
    /\ DBConstructed
    /\ TableInit
    /\ RunInit
    /\ ExecInit
    /\ CalcIdle
    /\ SchemaIdle
    /\ RecordFresh
    /\ CatalogIdle
    /\ ins_pc = "idle"
    /\ ins_columns \in ColumnLists
    /\ ins_args = <<>>
    /\ ins_statements = <<>>

InsertNext == InsertCall

SpecInsert == InsertInit /\ [][InsertNext]_vars

\* names of the AutoColumns of the class
AutoNames == {ins_columns[k].name : k \in {n \in 1..Len(ins_columns) : ins_columns[n].auto}}

\* names of the other columns, by position in __columns__
PlainPositions == {k \in 1..Len(ins_columns) : ~ins_columns[k].auto}

\* C14: insert never puts an auto-generated column in the column list or in a
\* row's value tuple; every value tuple holds exactly the non-auto columns in
\* schema order; with zero records no statement is issued.
C14_InsertSkipsAutoColumns ==
    ins_pc = "done" =>
        /\ ins_args = <<>> => ins_statements = <<>>
        /\ ins_args # <<>> =>
              /\ Len(ins_statements) = 1
              /\ LET st == ins_statements[1]
                 IN  /\ \A j \in 1..Len(st.columns) : st.columns[j].quoted \notin AutoNames
                     /\ Len(st.columns) = Cardinality(PlainPositions)
                     /\ \A a, b \in PlainPositions :
                           a < b =>
                              \E j, l \in 1..Len(st.columns) :
                                 /\ j < l
                                 /\ st.columns[j].quoted = ins_columns[a].name
                                 /\ st.columns[l].quoted = ins_columns[b].name
                     /\ Len(st.rows) = Len(ins_args)
                     /\ \A i \in 1..Len(st.rows) :
                           /\ Len(st.rows[i]) = Len(st.columns)
                           /\ \A j \in 1..Len(st.columns) :
                                 st.rows[i][j] =
                                    (IF ins_args[i][st.columns[j].quoted] = "unset"
                                     THEN "NULL" ELSE "'a'")

\* C14 witness: two instances inserted into a class whose auto column sits
\* between two plain columns, the auto attribute being set on an instance
C14_Witness ==
    /\ ins_pc = "done"
    /\ Len(ins_columns) = 3
    /\ ins_columns[2].auto
    /\ Len(ins_args) = 2
    /\ ins_args[1][ins_columns[2].name] # "unset"
    /\ Len(ins_statements) = 1

\* ------------------------------------------------------- TableMetaclass.__new__
\* a column declaration: its name and what kind of column it is
Col(name, kind) == [name |-> name, kind |-> kind, level |-> 0]

\* the column declarations a class body may hold, in declaration order
Declarations ==
    { <<>>,
      <<Col("id", "pk"), Col("ring", "dimension")>>,
      <<Col("ring", "natural"), Col("count", "metric")>>,
      <<Col("count", "metric"), Col("ring", "dimension")>>,
      <<Col("code", "pk")>> }

\* the reflection attributes a base class may carry (as Fact and Dimension do)
BaseAttributes == { {}, {"__dimensionkeys__", "__metrics__"}, {"__naturalkeys__"} }

\* those a class body may declare itself
OwnAttributes == { {}, {"__metrics__"} }

\* the declarations of the class at the given level of the hierarchy; the
\* level tells two definitions of one column name apart
AtLevel(decls, level) == [k \in 1..Len(decls) |-> [decls[k] EXCEPT !.level = level]]

\* every tuple of up to MaxBases base classes
BaseTuples ==
    {[k \in 1..Len(b) |-> [decls |-> AtLevel(b[k].decls, k), attrs |-> b[k].attrs]] :
        b \in SeqsUpTo([decls : Declarations, attrs : BaseAttributes], MaxBases)}

\* _ColumnSet.update: a new name goes to the end, a known name is overwritten
\* where it stands
RECURSIVE ColumnSet_update(_, _)
ColumnSet_update(columns, decls) ==
    IF decls = <<>> THEN columns
    ELSE LET c == Head(decls)
             known == \E k \in 1..Len(columns) : columns[k].name = c.name
             merged == IF known
                       THEN [k \in 1..Len(columns) |->
                               IF columns[k].name = c.name THEN c ELSE columns[k]]
                       ELSE Append(columns, c)
         IN  ColumnSet_update(merged, Tail(decls))

\* the key a class without a primary-key column gets
AutoKey == [name |-> "id", kind |-> "auto", level |-> 0]

NoColumn == [name |-> "", kind |-> "none", level |-> 0]

\* _ColumnSet.primary_key: more than one primary-key column is a SchemaError
ColumnSet_primary_key(columns) ==
    LET keys == {k \in 1..Len(columns) : columns[k].kind = "pk"}
    IN  IF Cardinality(keys) > 1 THEN [error |-> "SchemaError", column |-> NoColumn]
        ELSE IF keys = {} THEN [error |-> "none", column |-> AutoKey]
        ELSE [error |-> "none", column |-> columns[CHOOSE k \in keys : TRUE]]

\* _ColumnSet.dimension_keys, .metrics, .natural_keys: the columns of one kind
ColumnSet_of_kind(columns, kind) ==
    LET OfKind(c) == c.kind = kind
    IN  SelectSeq(columns, OfKind)

\* lines 11-12: for base in bases: column_set.update(base.__dict__)
RECURSIVE UpdateFromBases(_, _)
UpdateFromBases(columns, bases) ==
    IF bases = <<>> THEN columns
    ELSE UpdateFromBases(ColumnSet_update(columns, Head(bases).decls), Tail(bases))

\* MergeDeclarations with line 13 moved before the loop of lines 11-12
MergeOwnFirst(bases, attributes) ==
    UpdateFromBases(ColumnSet_update(<<>>, attributes.decls), bases)

\* lines 10-13: the bases first to last, then the class body
MergeDeclarations(bases, attributes) ==
    ColumnSet_update(UpdateFromBases(<<>>, bases), attributes.decls)

\* dir(cls): the names in the class body and in every base
ClassDir(bases, attributes) ==
    attributes.attrs \cup UNION {bases[k].attrs : k \in 1..Len(bases)}

Absent == [present |-> FALSE, list |-> <<>>]

\* Exposed without the test of lines 24, 26, 28
ExposedAlways(names, attribute, list) == [present |-> TRUE, list |-> list]

\* lines 24-29: the list is set on the class only if the name is in dir(cls)
Exposed(names, attribute, list) ==
    IF attribute \in names THEN [present |-> TRUE, list |-> list] ELSE Absent

\* the class that does not come to exist
NoClass(error) ==
    [ error |-> error, columns |-> <<>>, primarykey |-> NoColumn,
      dimensionkeys |-> Absent, metrics |-> Absent, naturalkeys |-> Absent ]

\* TableMetaclass_new with line 16 left out: the primary key is not looked at
TableMetaclass_new_without_key(bases, attributes) ==
    LET columns == MergeDeclarations(bases, attributes)
        names == ClassDir(bases, attributes)
    IN  [ error |-> "none",
          columns |-> columns,
          primarykey |-> NoColumn,
          dimensionkeys |->
              Exposed(names, "__dimensionkeys__", ColumnSet_of_kind(columns, "dimension")),
          metrics |->
              Exposed(names, "__metrics__", ColumnSet_of_kind(columns, "metric")),
          naturalkeys |->
              Exposed(names, "__naturalkeys__", ColumnSet_of_kind(columns, "natural")) ]

\* lines 7-31: the class attributes the metaclass computes, or the exception
\* that leaves __new__
TableMetaclass_new(bases, attributes) ==
    LET columns == MergeDeclarations(bases, attributes)
        key == ColumnSet_primary_key(columns)
        names == ClassDir(bases, attributes)
    IN  IF key.error # "none" THEN NoClass(key.error)
        ELSE [ error |-> "none",
               columns |-> columns,
               primarykey |-> key.column,
               dimensionkeys |->
                   Exposed(names, "__dimensionkeys__", ColumnSet_of_kind(columns, "dimension")),
               metrics |->
                   Exposed(names, "__metrics__", ColumnSet_of_kind(columns, "metric")),
               naturalkeys |->
                   Exposed(names, "__naturalkeys__", ColumnSet_of_kind(columns, "natural")) ]

\* a class statement is executed with these bases and this body
CreateClass ==
    /\ Len(sch_results) < MaxResolutions
    /\ sch_results' = Append(sch_results, TableMetaclass_new(sch_bases, sch_attributes))
    /\ UNCHANGED <<sch_bases, sch_attributes>>
    /\ UNCHANGED <<dbvars, tvars, rvars, cvars, ivars, kvars, gvars, qvars>>

SchemaInit ==
    /\ server_variables = [present |-> TRUE, value |-> LargeLimit]
    /\ client_config = [kind |-> "value", text |-> <<"1", "k">>]
    /\ DBConstructed
    /\ TableInit
    /\ RunInit
    /\ ExecInit
    /\ InsertIdle
    /\ CalcIdle
    /\ RecordFresh
    /\ CatalogIdle
    /\ sch_bases \in BaseTuples
    /\ \E d \in Declarations, a \in OwnAttributes :
          sch_attributes = [decls |-> AtLevel(d, Len(sch_bases) + 1), attrs |-> a]
    /\ sch_results = <<>>

SchemaNext == CreateClass

SpecSchema == SchemaInit /\ [][SchemaNext]_vars

\* the declarations level by level: the bases first to last, then the class body
Levels == [k \in 1..(Len(sch_bases) + 1) |->
              IF k <= Len(sch_bases) THEN sch_bases[k].decls ELSE sch_attributes.decls]

DeclaredAt(level) == {Levels[level][k].name : k \in 1..Len(Levels[level])}

DeclaredNames == UNION {DeclaredAt(level) : level \in 1..Len(Levels)}

\* the first and the last level that declares a name
FirstLevel(name) == CHOOSE l \in 1..Len(Levels) :
    /\ name \in DeclaredAt(l)
    /\ \A m \in 1..Len(Levels) : name \in DeclaredAt(m) => l <= m

LastLevel(name) == CHOOSE l \in 1..Len(Levels) :
    /\ name \in DeclaredAt(l)
    /\ \A m \in 1..Len(Levels) : name \in DeclaredAt(m) => m <= l

PlaceAt(name, level) == CHOOSE k \in 1..Len(Levels[level]) : Levels[level][k].name = name

\* the definition of a name that is in force: the one of the last level
InForce(name) == Levels[LastLevel(name)][PlaceAt(name, LastLevel(name))]

\* name x is first declared before name y
DeclaredBefore(x, y) ==
    \/ FirstLevel(x) < FirstLevel(y)
    \/ /\ FirstLevel(x) = FirstLevel(y)
       /\ PlaceAt(x, FirstLevel(x)) < PlaceAt(y, FirstLevel(y))

\* C18: the merged column list holds every declared name once, each with the
\* definition of the most specific level that declares it, ordered by where
\* the name was first declared (bases first to last, the class body last), and
\* creating the class again from the same declarations gives the same list.
C18_MergeKeepsFirstPosition ==
    \A r \in 1..Len(sch_results) :
        sch_results[r].error = "none" =>
        LET columns == sch_results[r].columns
        IN  /\ {columns[k].name : k \in 1..Len(columns)} = DeclaredNames
            /\ Len(columns) = Cardinality(DeclaredNames)
            /\ \A k \in 1..Len(columns) : columns[k] = InForce(columns[k].name)
            /\ \A j, k \in 1..Len(columns) :
                  j < k => DeclaredBefore(columns[j].name, columns[k].name)
            /\ \A q \in 1..Len(sch_results) : sch_results[q].columns = sch_results[r].columns

\* C18 witness: a class created twice whose body re-declares a column of its
\* first base and adds a new one, with a second base in between
C18_Witness ==
    /\ Len(sch_results) = 2
    /\ Len(sch_bases) = 2
    /\ sch_results[1].error = "none"
    /\ \E k \in 1..Len(sch_results[1].columns) :
          LET c == sch_results[1].columns[k]
          IN  /\ c.level = 3
              /\ FirstLevel(c.name) = 1
              /\ k < Len(sch_results[1].columns)
    /\ \E k \in 1..Len(sch_results[1].columns) :
          FirstLevel(sch_results[1].columns[k].name) = 3

\* the names whose definition in force is a primary-key column
KeyNames == {n \in DeclaredNames : InForce(n).kind = "pk"}

\* C19: a class whose declarations hold two primary-key columns is not
\* created (SchemaError leaves the class statement); otherwise the class has
\* exactly one primary key, the declared one or, with none declared, an
\* auto-generated key.
C19_ExactlyOnePrimaryKey ==
    \A r \in 1..Len(sch_results) :
        /\ Cardinality(KeyNames) > 1 => sch_results[r].error = "SchemaError"
        /\ Cardinality(KeyNames) = 1 =>
              /\ sch_results[r].error = "none"
              /\ sch_results[r].primarykey.kind = "pk"
              /\ sch_results[r].primarykey.name \in KeyNames
        /\ Cardinality(KeyNames) = 0 =>
              /\ sch_results[r].error = "none"
              /\ sch_results[r].primarykey.kind = "auto"

\* C19 witness: one class refused for two primary keys declared in different
\* bases
C19_Witness ==
    /\ Len(sch_results) >= 1
    /\ sch_results[1].error = "SchemaError"
    /\ Cardinality(KeyNames) = 2

\* C20: a created class carries __dimensionkeys__, __metrics__ or
\* __naturalkeys__ only if that name is an attribute of the class body or of a
\* base; a name that is nowhere is left absent, and a list that is set holds
\* exactly the merged columns of its kind.
C20_DerivedListsOnlyWhenTracked ==
    \A r \in 1..Len(sch_results) :
        sch_results[r].error = "none" =>
            LET cls == sch_results[r]
                tracked == sch_attributes.attrs
                           \cup UNION {sch_bases[k].attrs : k \in 1..Len(sch_bases)}
                ColumnsOfKind(kind) == {c \in Range(cls.columns) : c.kind = kind}
            IN  /\ cls.dimensionkeys.present <=> "__dimensionkeys__" \in tracked
                /\ cls.metrics.present <=> "__metrics__" \in tracked
                /\ cls.naturalkeys.present <=> "__naturalkeys__" \in tracked
                /\ cls.dimensionkeys.present =>
                      /\ Range(cls.dimensionkeys.list) = ColumnsOfKind("dimension")
                      /\ Len(cls.dimensionkeys.list) = Cardinality(ColumnsOfKind("dimension"))
                /\ cls.metrics.present =>
                      /\ Range(cls.metrics.list) = ColumnsOfKind("metric")
                      /\ Len(cls.metrics.list) = Cardinality(ColumnsOfKind("metric"))
                /\ cls.naturalkeys.present =>
                      /\ Range(cls.naturalkeys.list) = ColumnsOfKind("natural")
                      /\ Len(cls.naturalkeys.list) = Cardinality(ColumnsOfKind("natural"))

\* C20 witness: a class with a natural-key column and a metric column whose
\* base tracks metrics and nothing tracks natural keys; its metrics list is
\* set and not empty, its natural-key list is absent
C20_Witness ==
    /\ Len(sch_results) >= 1
    /\ sch_results[1].error = "none"
    /\ sch_attributes.attrs = {}
    /\ \E k \in 1..Len(sch_results[1].columns) : sch_results[1].columns[k].kind = "natural"
    /\ sch_results[1].metrics.present
    /\ sch_results[1].metrics.list # <<>>
    /\ ~sch_results[1].naturalkeys.present

\* ------------------------------------------ Table.__getitem__ / __setitem__
\* the names an item access may be made with
ItemNames == {"ring", "count", "hidden", "save", "nope"}

\* the values assigned
ItemValues == {"None", "v1"}

\* ColumnKey matching the attribute key instead of the Column's name
ColumnKeyByAttribute(column_name) ==
    LET hits == {k \in 1..Len(ClassAttributes) :
                    /\ ~ClassAttributes[k].underscore
                    /\ ClassAttributes[k].key = column_name}
    IN  IF hits = {} THEN ""
        ELSE ClassAttributes[CHOOSE k \in hits : \A j \in hits : k <= j].key

\* lines 156-159 and 167-170: the first key of dir(self) that does not start
\* with "_" and whose class attribute is a Column of that name; "" if none
ColumnKey(column_name) ==
    LET hits == {k \in 1..Len(ClassAttributes) :
                    /\ ~ClassAttributes[k].underscore
                    /\ ClassAttributes[k].column # ""
                    /\ ClassAttributes[k].column = column_name}
    IN  IF hits = {} THEN ""
        ELSE ClassAttributes[CHOOSE k \in hits : \A j \in hits : k <= j].key

\* lines 153-162: instance[column_name]
GetItem ==
    /\ Len(rec_log) < MaxAccesses
    /\ \E name \in ItemNames :
        LET key == ColumnKey(name)
        IN  rec_log' = Append(rec_log,
                [ op |-> "get", name |-> name, value |-> "None",
                  outcome |-> IF key = "" THEN "KeyError" ELSE "returned",
                  result |-> IF key = "" THEN "None"
                             ELSE IF rec_attrs[key] = "unset" THEN "None"
                             ELSE rec_attrs[key],
                  before |-> rec_attrs, after |-> rec_attrs ])
    /\ UNCHANGED rec_attrs
    /\ UNCHANGED <<dbvars, tvars, rvars, cvars, ivars, kvars, svars, qvars>>

\* lines 164-173: instance[column_name] = value
SetItem ==
    /\ Len(rec_log) < MaxAccesses
    /\ \E name \in ItemNames, value \in ItemValues :
        LET key == ColumnKey(name)
            attrs == IF key = "" THEN rec_attrs ELSE [rec_attrs EXCEPT ![key] = value]
        IN  /\ rec_attrs' = attrs
            /\ rec_log' = Append(rec_log,
                  [ op |-> "set", name |-> name, value |-> value,
                    outcome |-> IF key = "" THEN "KeyError" ELSE "returned",
                    result |-> "None",
                    before |-> rec_attrs, after |-> attrs ])
    /\ UNCHANGED <<dbvars, tvars, rvars, cvars, ivars, kvars, svars, qvars>>

RecordInit ==
    /\ server_variables = [present |-> TRUE, value |-> LargeLimit]
    /\ client_config = [kind |-> "value", text |-> <<"1", "k">>]
    /\ DBConstructed
    /\ TableInit
    /\ RunInit
    /\ ExecInit
    /\ InsertIdle
    /\ CalcIdle
    /\ SchemaIdle
    /\ RecordFresh
    /\ CatalogIdle

RecordNext == GetItem \/ SetItem

SpecRecord == RecordInit /\ [][RecordNext]_vars

\* the column names of the class: the Columns held under a public attribute
RecordColumns ==
    {ClassAttributes[k].column : k \in {j \in 1..Len(ClassAttributes) :
        ClassAttributes[j].column # "" /\ ~ClassAttributes[j].underscore}}

\* the attribute keys that hold a Column of the given name
KeysOf(column_name) ==
    {ClassAttributes[k].key : k \in {j \in 1..Len(ClassAttributes) :
        ClassAttributes[j].column = column_name}}

\* C21: an item access by a name that is not a column raises KeyError and
\* leaves the instance unchanged; a set on a column changes no attribute of
\* another column, and a get that follows it returns the value set; a get of a
\* column never set returns None.
C21_RecordIsClosedMapping ==
    \A i \in 1..Len(rec_log) :
        LET a == rec_log[i]
        IN  /\ a.name \notin RecordColumns =>
                  (a.outcome = "KeyError" /\ a.after = a.before)
            /\ a.name \in RecordColumns => a.outcome = "returned"
            /\ (a.op = "set" /\ a.name \in RecordColumns) =>
                  /\ \A key \in AttributeKeys \ KeysOf(a.name) : a.after[key] = a.before[key]
                  /\ (i < Len(rec_log) /\ rec_log[i + 1].op = "get"
                        /\ rec_log[i + 1].name = a.name) =>
                        rec_log[i + 1].result = a.value
            /\ (a.op = "get" /\ a.name \in RecordColumns
                  /\ \A j \in 1..(i - 1) :
                        ~(rec_log[j].op = "set" /\ rec_log[j].name = a.name)) =>
                  a.result = "None"

\* C21 witness: a column is set, read back, and an unknown name is refused
C21_Witness ==
    /\ Len(rec_log) = 3
    /\ rec_log[1].op = "set" /\ rec_log[1].name = "ring" /\ rec_log[1].value = "v1"
    /\ rec_log[2].op = "get" /\ rec_log[2].name = "ring" /\ rec_log[2].result = "v1"
    /\ rec_log[3].op = "set" /\ rec_log[3].name = "nope" /\ rec_log[3].outcome = "KeyError"

\* ------------------------------- Table.create_table / drop_table / table_exists
\* cls.__tablename__ and the name of some other table of the warehouse
TableName == "fact_ring_journey"

OtherTable == "dim_ring"

\* Warehouse.execute(sql, commit=True) for a DDL statement: the store refuses
\* to create a table that exists and to drop one that does not, unless the
\* statement says IF NOT EXISTS / IF EXISTS
Warehouse_execute(tables, verb, name) ==
    CASE verb = "CREATE TABLE" ->
            IF name \in tables THEN [error |-> "OperationalError", tables |-> tables]
            ELSE [error |-> "none", tables |-> tables \cup {name}]
      [] verb = "CREATE TABLE IF NOT EXISTS" ->
            [error |-> "none", tables |-> tables \cup {name}]
      [] verb = "DROP TABLE" ->
            IF name \notin tables THEN [error |-> "OperationalError", tables |-> tables]
            ELSE [error |-> "none", tables |-> tables \ {name}]
      [] verb = "DROP TABLE IF EXISTS" ->
            [error |-> "none", tables |-> tables \ {name}]

\* CreateVerb without lines 74-75: the flag is ignored
CreateVerbPlain(if_not_exists) == "CREATE TABLE"

\* lines 74-77
CreateVerb(if_not_exists) ==
    IF if_not_exists THEN "CREATE TABLE IF NOT EXISTS" ELSE "CREATE TABLE"

\* lines 88-91
DropVerb(if_exists) ==
    IF if_exists THEN "DROP TABLE IF EXISTS" ELSE "DROP TABLE"

\* one entry of the history
CatalogCall(op, flag, done, exists) ==
    [ op |-> op, flag |-> flag, error |-> done.error, exists |-> exists,
      before |-> cat_tables, after |-> done.tables ]

\* lines 71-83: cls.create_table(if_not_exists)
CreateTable ==
    /\ Len(cat_log) < MaxCatalogCalls
    /\ \E if_not_exists \in BOOLEAN :
        LET done == Warehouse_execute(cat_tables, CreateVerb(if_not_exists), TableName)
        IN  /\ cat_tables' = done.tables
            /\ cat_log' = Append(cat_log, CatalogCall("create_table", if_not_exists, done, FALSE))
    /\ UNCHANGED <<dbvars, tvars, rvars, cvars, ivars, kvars, svars, gvars>>

\* lines 85-94: cls.drop_table(if_exists)
DropTable ==
    /\ Len(cat_log) < MaxCatalogCalls
    /\ \E if_exists \in BOOLEAN :
        LET done == Warehouse_execute(cat_tables, DropVerb(if_exists), TableName)
        IN  /\ cat_tables' = done.tables
            /\ cat_log' = Append(cat_log, CatalogCall("drop_table", if_exists, done, FALSE))
    /\ UNCHANGED <<dbvars, tvars, rvars, cvars, ivars, kvars, svars, gvars>>

\* lines 96-101: cls.table_exists()
TableExists ==
    /\ Len(cat_log) < MaxCatalogCalls
    /\ cat_log' = Append(cat_log,
          CatalogCall("table_exists", FALSE, [error |-> "none", tables |-> cat_tables],
                      TableName \in cat_tables))
    /\ UNCHANGED cat_tables
    /\ UNCHANGED <<dbvars, tvars, rvars, cvars, ivars, kvars, svars, gvars>>

CatalogInit ==
    /\ server_variables = [present |-> TRUE, value |-> LargeLimit]
    /\ client_config = [kind |-> "value", text |-> <<"1", "k">>]
    /\ DBConstructed
    /\ TableInit
    /\ RunInit
    /\ ExecInit
    /\ InsertIdle
    /\ CalcIdle
    /\ SchemaIdle
    /\ RecordFresh
    /\ cat_tables \in SUBSET {TableName, OtherTable}
    /\ cat_log = <<>>

CatalogNext == CreateTable \/ DropTable \/ TableExists

SpecCatalog == CatalogInit /\ [][CatalogNext]_vars

\* C22: a create_table that succeeds followed by table_exists reports true;
\* drop_table(if_exists=True) with the table absent does not raise and leaves
\* the warehouse's tables as they were; create_table(if_not_exists=True) with
\* the table present does not raise.
C22_CreateThenExists ==
    \A i \in 1..Len(cat_log) :
        LET a == cat_log[i]
        IN  /\ (a.op = "create_table" /\ a.error = "none" /\ i < Len(cat_log)
                  /\ cat_log[i + 1].op = "table_exists") => cat_log[i + 1].exists
            /\ (a.op = "drop_table" /\ a.flag /\ TableName \notin a.before) =>
                  (a.error = "none" /\ a.after = a.before)
            /\ (a.op = "create_table" /\ a.flag /\ TableName \in a.before) =>
                  a.error = "none"

\* C22 witness: with another table in the warehouse, the absent table is
\* dropped with if_exists, created, found, and created again with
\* if_not_exists
C22_Witness ==
    /\ Len(cat_log) = 4
    /\ OtherTable \in cat_tables
    /\ cat_log[1].op = "drop_table" /\ cat_log[1].flag /\ TableName \notin cat_log[1].before
    /\ cat_log[2].op = "create_table" /\ ~cat_log[2].flag /\ cat_log[2].error = "none"
    /\ cat_log[3].op = "table_exists" /\ cat_log[3].exists
    /\ cat_log[4].op = "create_table" /\ cat_log[4].flag /\ cat_log[4].error = "none"

====
